---- MODULE Spec2Model ----
(***************************************************************************)
(* find-port-by-pid: findPortByPid(pid) of src/index.ts as a state machine.*)
(* One call is followed from its argument check through the platform       *)
(* dispatch to the settling of the returned promise.  Text (stdout of the  *)
(* spawned tool, link targets, /proc/net/tcp content) is a sequence of     *)
(* one-character strings, and the string operations of the code (trim,     *)
(* split, includes, pop, match, parseInt, toString) are operators on such  *)
(* sequences.                                                              *)
(***************************************************************************)
EXTENDS Integers, Sequences, FiniteSets, TLC

\* ------------------------------------------------------------ bounds
\* Longest output, in lines, of the spawned tool (PowerShell, lsof).
MaxLines == 2
\* Most entries of /proc/<pid>/fd.
MaxFds == 2
\* Most records after the header of /proc/net/tcp.
MaxRows == 2

\* ------------------------------------------------------------ characters
DecChars == <<"0", "1", "2", "3", "4", "5", "6", "7", "8", "9">>
HexLower == DecChars \o <<"a", "b", "c", "d", "e", "f">>
HexUpper == DecChars \o <<"A", "B", "C", "D", "E", "F">>
Letters ==
    {"a", "b", "c", "d", "e", "f", "g", "h", "i", "j", "k", "l", "m",
     "n", "o", "p", "q", "r", "s", "t", "u", "v", "w", "x", "y", "z",
     "A", "B", "C", "D", "E", "F", "G", "H", "I", "J", "K", "L", "M",
     "N", "O", "P", "Q", "R", "S", "T", "U", "V", "W", "X", "Y", "Z"}

\* \d of a JavaScript regular expression.
IsDigit(c) == \E i \in 1..10 : DecChars[i] = c
\* \s of a JavaScript regular expression, and what trim() removes.
IsWhite(c) == c \in {" ", "\t", "\n", "\r"}
\* A word constituent for grep -w.
IsWordChar(c) == IsDigit(c) \/ c \in Letters \/ c = "_"

\* /^\d+$/.test(s)
IsAllDigits(s) == Len(s) > 0 /\ \A i \in 1..Len(s) : IsDigit(s[i])

\* ------------------------------------------------------------ strings
\* The least index i >= from of s with Test(s[i]), or Len(s) + 1.
IndexFrom(s, from, Test(_)) ==
    CHOOSE i \in from..(Len(s) + 1) :
        /\ i = Len(s) + 1 \/ Test(s[i])
        /\ \A j \in from..(i - 1) : ~Test(s[j])

\* The greatest index i of s with Test(s[i]), or 0.
LastIndex(s, Test(_)) ==
    CHOOSE i \in 0..Len(s) :
        /\ i = 0 \/ Test(s[i])
        /\ \A j \in (i + 1)..Len(s) : ~Test(s[j])

NotWhite(c) == ~IsWhite(c)

\* String.prototype.trimStart
trimStart(s) == SubSeq(s, IndexFrom(s, 1, NotWhite), Len(s))

\* String.prototype.trimEnd
trimEnd(s) == SubSeq(s, 1, LastIndex(s, NotWhite))

\* String.prototype.trim
trim(s) == trimEnd(trimStart(s))

RECURSIVE splitAt(_, _, _)
splitAt(s, c, from) ==
    LET IsSep(x) == x = c
        i == IndexFrom(s, from, IsSep)
    IN  IF i > Len(s) THEN <<SubSeq(s, from, Len(s))>>
        ELSE <<SubSeq(s, from, i - 1)>> \o splitAt(s, c, i + 1)

\* s.split(c) for a one-character separator: every occurrence separates,
\* so empty pieces are kept.
split(s, c) == splitAt(s, c, 1)

RECURSIVE splitWsAt(_, _)
splitWsAt(s, from) ==
    LET i == IndexFrom(s, from, IsWhite)
    IN  IF i > Len(s) THEN <<SubSeq(s, from, Len(s))>>
        ELSE <<SubSeq(s, from, i - 1)>> \o splitWsAt(s, IndexFrom(s, i, NotWhite))

\* s.split(/\s+/): a maximal run of white space separates.
splitWs(s) == splitWsAt(s, 1)

\* s.includes(c) for a one-character c.
includes(s, c) == \E i \in 1..Len(s) : s[i] = c

\* s.indexOf(c), zero-based, -1 when absent.
indexOf(s, c) ==
    IF includes(s, c)
    THEN (CHOOSE i \in 1..Len(s) : s[i] = c /\ \A j \in 1..(i - 1) : s[j] # c) - 1
    ELSE -1

\* Array.prototype.includes on an array of strings.
arrayIncludes(arr, x) == \E i \in 1..Len(arr) : arr[i] = x

\* arr.join(sep), each piece followed by sep (a tool ends each line).
RECURSIVE joinLines(_, _)
joinLines(arr, sep) ==
    IF arr = <<>> THEN <<>> ELSE Head(arr) \o sep \o joinLines(Tail(arr), sep)

\* The elements of an array, as a set.
Range(arr) == {arr[i] : i \in 1..Len(arr)}

\* All sequences over S of length at most n.
SeqsUpTo(S, n) == UNION {[1..k -> S] : k \in 0..n}

\* ------------------------------------------------------------ numbers
\* The value of digit c in a radix up to 16.
DigitValue(c) == CHOOSE v \in 0..15 : HexLower[v + 1] = c \/ HexUpper[v + 1] = c
IsRadixDigit(c, radix) ==
    \E v \in 0..(radix - 1) : HexLower[v + 1] = c \/ HexUpper[v + 1] = c

RECURSIVE digitsEnd(_, _, _)
\* The index after the longest run of radix digits of s starting at i.
digitsEnd(s, i, radix) ==
    IF i <= Len(s) /\ IsRadixDigit(s[i], radix)
    THEN digitsEnd(s, i + 1, radix)
    ELSE i

RECURSIVE digitsValue(_, _, _, _)
digitsValue(s, i, to, radix) ==
    IF to < i THEN 0
    ELSE digitsValue(s, i, to - 1, radix) * radix + DigitValue(s[to])

NaN == [nan |-> TRUE, val |-> 0]

\* parseInt(s, radix): leading white space, a sign, for radix 16 a 0x or 0X
\* prefix, then the longest run of radix digits; NaN when that run is empty.
parseInt(str, radix) ==
    LET s0 == trimStart(str)
        neg == Len(s0) > 0 /\ s0[1] = "-"
        s1 == IF Len(s0) > 0 /\ s0[1] \in {"+", "-"}
              THEN SubSeq(s0, 2, Len(s0)) ELSE s0
        s2 == IF radix = 16 /\ Len(s1) >= 2 /\ s1[1] = "0" /\ s1[2] \in {"x", "X"}
              THEN SubSeq(s1, 3, Len(s1)) ELSE s1
        e  == digitsEnd(s2, 1, radix)
        v  == digitsValue(s2, 1, e - 1, radix)
    IN  IF e = 1 THEN NaN
        ELSE [nan |-> FALSE, val |-> IF neg THEN 0 - v ELSE v]

RECURSIVE decDigits(_)
decDigits(n) ==
    IF n < 10 THEN <<DecChars[n + 1]>>
    ELSE Append(decDigits(n \div 10), DecChars[(n % 10) + 1])

\* Number.prototype.toString of what parseInt returns.
numberToString(n) ==
    IF n.nan THEN <<"N", "a", "N">>
    ELSE IF n.val < 0 THEN <<"-">> \o decDigits(0 - n.val)
    ELSE decDigits(n.val)

\* ------------------------------------------------------------ texts
\* The fixed head of the link target of a socket descriptor.
TxtSocketPrefix ==
    <<"s", "o", "c", "k", "e", "t", ":", "[">>

LinkSocket7 ==
    <<"s", "o", "c", "k", "e", "t", ":", "[", "7", "]">>

LinkSocket8 ==
    <<"s", "o", "c", "k", "e", "t", ":", "[", "8", "]">>

LinkPipe7 ==
    <<"p", "i", "p", "e", ":", "[", "7", "]">>

\* The header line of /proc/net/tcp and /proc/net/tcp6.
TcpHeader ==
    <<" ", " ", "s", "l", " ", " ", "l", "o", "c", "a", "l", "_", "a", "d",
      "d", "r", "e", "s", "s", " ", "r", "e", "m", "_", "a", "d", "d", "r",
      "e", "s", "s", " ", " ", " ", "s", "t", " ", "t", "x", "_", "q", "u",
      "e", "u", "e", " ", "r", "x", "_", "q", "u", "e", "u", "e", " ", "t",
      "r", " ", "t", "m", "-", ">", "w", "h", "e", "n", " ", "r", "e", "t",
      "r", "n", "s", "m", "t", " ", " ", " ", "u", "i", "d", " ", " ", "t",
      "i", "m", "e", "o", "u", "t", " ", "i", "n", "o", "d", "e">>

RowHead ==
    <<" ", " ", " ", "0", ":", " ">>

RowMiddle ==
    <<" ", "0", "0", "0", "0", "0", "0", "0", "0", ":", "0", "0", "0", "0",
      " ", "0", "A", " ", "0", "0", "0", "0", "0", "0", "0", "0", ":", "0",
      "0", "0", "0", "0", "0", "0", "0", " ", "0", "0", ":", "0", "0", "0",
      "0", "0", "0", "0", "0", " ", "0", "0", "0", "0", "0", "0", "0", "0",
      " ", " ", "1", "0", "0", "0", " ", " ", " ", " ", " ", " ", " ", " ",
      "0", " ">>

RowTail ==
    <<" ", "1", " ", "0", "0", "0", "0", "0", "0", "0", "0", "0", "0", "0",
      "0", "0", "0", "0", "0">>

Txt8080 ==
    <<"8", "0", "8", "0">>

Txt22 ==
    <<"2", "2">>

Txt3000 ==
    <<"3", "0", "0", "0">>

Addr8080 ==
    <<"0", "1", "0", "0", "0", "0", "7", "F", ":", "1", "F", "9", "0">>

Addr22 ==
    <<"0", "1", "0", "0", "0", "0", "7", "F", ":", "0", "0", "1", "6">>

Addr80 ==
    <<"0", "0", "0", "0", "0", "0", "0", "0", ":", "0", "0", "5", "0">>

AddrBadHex ==
    <<"0", "1", "0", "0", "0", "0", "7", "F", ":", "Z", "Z", "Z", "Z">>

AddrWide ==
    <<"0", "1", "0", "0", "0", "0", "7", "F", ":", "1", "F", "F", "F", "F">>

AddrNoColon ==
    <<"0", "1", "0", "0", "0", "0", "7", "F">>

Addr6x8080 ==
    <<"0", "0", "0", "0", "0", "0", "0", "0", "0", "0", "0", "0", "0", "0",
      "0", "0", "0", "0", "0", "0", "0", "0", "0", "0", "0", "0", "0", "0",
      "0", "0", "0", "0", ":", "1", "F", "9", "0">>

Addr6x443 ==
    <<"0", "0", "0", "0", "0", "0", "0", "0", "0", "0", "0", "0", "0", "0",
      "0", "0", "0", "0", "0", "0", "0", "0", "0", "0", "0", "1", "0", "0",
      "0", "0", "0", "0", ":", "0", "1", "B", "B">>

Inode7 ==
    <<"7">>

Inode8 ==
    <<"8">>

Inode9 ==
    <<"9">>

RowShort ==
    <<" ", " ", " ", "1", ":", " ", "0", "1", "0", "0", "0", "0", "7", "F",
      ":", "0", "0", "5", "0", " ", "0", "0", "0", "0", "0", "0", "0", "0",
      ":", "0", "0", "0", "0", " ", "0", "A", " ", "0", "0", "0", "0", "0",
      "0", "0", "0", ":", "0", "0", "0", "0", "0", "0", "0", "0", " ", "0",
      "0", ":", "0", "0", "0", "0", "0", "0", "0", "0", " ", "7">>

LsofHeader ==
    <<"C", "O", "M", "M", "A", "N", "D", " ", "P", "I", "D", " ", "U", "S",
      "E", "R", " ", "F", "D", " ", "T", "Y", "P", "E", " ", "D", "E", "V",
      "I", "C", "E", " ", "S", "I", "Z", "E", "/", "O", "F", "F", " ", "N",
      "O", "D", "E", " ", "N", "A", "M", "E">>

Lsof80Listen ==
    <<"n", "o", "d", "e", " ", "8", "0", " ", "r", "o", "o", "t", " ", "2",
      "0", "u", " ", "I", "P", "v", "4", " ", "0", "x", "1", "a", " ", "0",
      "t", "0", " ", "T", "C", "P", " ", "1", "2", "7", ".", "0", ".", "0",
      ".", "1", ":", "3", "0", "0", "0", " ", "(", "L", "I", "S", "T", "E",
      "N", ")">>

Lsof80V6 ==
    <<"n", "o", "d", "e", " ", "8", "0", " ", "r", "o", "o", "t", " ", "2",
      "1", "u", " ", "I", "P", "v", "6", " ", "0", "x", "1", "b", " ", "0",
      "t", "0", " ", "T", "C", "P", " ", ":", ":", "1", ":", "3", "0", "0",
      "0", " ", "(", "L", "I", "S", "T", "E", "N", ")">>

Lsof80Udp ==
    <<"n", "o", "d", "e", " ", "8", "0", " ", "r", "o", "o", "t", " ", "2",
      "2", "u", " ", "I", "P", "v", "6", " ", "0", "x", "1", "c", " ", "0",
      "t", "0", " ", "U", "D", "P", " ", "*", ":", "*", " ", "f", "e", "8",
      "0", ":", ":">>

Lsof42Port80 ==
    <<"n", "g", "i", "n", "x", " ", "4", "2", " ", "r", "o", "o", "t", " ",
      "6", "u", " ", "I", "P", "v", "4", " ", "0", "x", "2", "a", " ", "0",
      "t", "0", " ", "T", "C", "P", " ", "*", ":", "8", "0", " ", "(", "L",
      "I", "S", "T", "E", "N", ")">>

Lsof800 ==
    <<"r", "u", "b", "y", " ", "8", "0", "0", " ", "r", "o", "o", "t", " ",
      "7", "u", " ", "I", "P", "v", "4", " ", "0", "x", "3", "a", " ", "0",
      "t", "0", " ", "T", "C", "P", " ", "*", ":", "8", "0", "8", "0", " ",
      "(", "L", "I", "S", "T", "E", "N", ")">>

Lsof80Conn ==
    <<"n", "o", "d", "e", " ", "8", "0", " ", "r", "o", "o", "t", " ", "2",
      "3", "u", " ", "I", "P", "v", "4", " ", "0", "x", "1", "d", " ", "0",
      "t", "0", " ", "T", "C", "P", " ", "1", "0", ".", "0", ".", "0", ".",
      "1", ":", "5", "2", "0", "0", "0", "-", ">", "1", "0", ".", "0", ".",
      "0", ".", "2", ":", "4", "4", "3", " ", "(", "E", "S", "T", "A", "B",
      "L", "I", "S", "H", "E", "D", ")">>

WinLine80 ==
    <<"8", "0">>

WinLine443 ==
    <<"4", "4", "3">>

WinLineBlank ==
    <<" ">>

WinLineText ==
    <<"W", "A", "R", "N", "I", "N", "G">>

\* ------------------------------------------------------------ inputs
\* The arguments tried: integers (positive, zero, negative), a fraction,
\* NaN and an infinity.  val is the integer value when kind is "int".
Pids ==
    {[kind |-> "int", val |-> v] : v \in {-1, 0, 80}}
    \cup {[kind |-> k, val |-> 0] : k \in {"frac", "nan", "inf"}}

\* What os.platform() may answer.
Platforms == {"win32", "darwin", "linux", "freebsd"}

\* What PowerShell may hand to the exec callback: a failure (with or without
\* text on stderr), or lines ended by CR LF.
WinLines == {WinLine80, WinLine443, WinLineBlank, WinLineText}
WinExecResults ==
    {[failed |-> TRUE, message |-> "Command failed: powershell",
      stdout |-> <<>>, stderr |-> e] : e \in {"", "Access is denied"}}
    \cup {[failed |-> FALSE, message |-> "",
           stdout |-> joinLines(ls, <<"\r", "\n">>), stderr |-> ""] :
             ls \in SeqsUpTo(WinLines, MaxLines)}

\* The lines lsof -i -P -n may print after its header.
LsofLines ==
    {Lsof80Listen, Lsof80V6, Lsof80Udp, Lsof80Conn, Lsof42Port80, Lsof800}

\* What lsof may print: up to MaxLines of these lines.
LsofOutputs == SeqsUpTo(LsofLines, MaxLines)

\* What fs.readdir of /proc/<pid>/fd may answer.
ReaddirResults ==
    {[failed |-> TRUE, message |-> m, files |-> <<>>] :
        m \in {"ENOENT: no such file or directory", "EACCES: permission denied"}}
    \cup {[failed |-> FALSE, message |-> "", files |-> [i \in 1..n |-> i - 1]] :
            n \in 0..MaxFds}

\* What fs.readlink of one descriptor may answer.
ReadlinkResults ==
    {[failed |-> TRUE, link |-> <<>>]}
    \cup {[failed |-> FALSE, link |-> l] : l \in {LinkSocket7, LinkSocket8, LinkPipe7}}

\* One record of a connection table.
Row(localAddress, inode) == RowHead \o localAddress \o RowMiddle \o inode \o RowTail

TcpRows ==
    {Row(Addr8080, Inode7), Row(Addr22, Inode7), Row(Addr80, Inode9),
     Row(AddrBadHex, Inode8)}
\* The records /proc/net/tcp6 may hold after its header.
Tcp6RowLists ==
    {<<>>, <<Row(Addr6x8080, Inode8)>>, <<Row(AddrWide, Inode8), RowShort>>,
     <<Row(AddrNoColon, Inode7)>>, <<Row(Addr6x8080, Inode8), Row(Addr6x443, Inode7)>>}

\* What fs.readFile of a connection table may answer: a failure, or the
\* header line and then the records, each line ended by a line feed.
TableFiles(rowLists) ==
    {[readable |-> FALSE, content |-> <<>>]}
    \cup {[readable |-> TRUE, content |-> joinLines(<<TcpHeader>> \o rs, <<"\n">>)] :
            rs \in rowLists}

TcpFiles == TableFiles(SeqsUpTo(TcpRows, MaxRows))
Tcp6Files == TableFiles(Tcp6RowLists)

\* ------------------------------------------------------------ state
VARIABLES
    pc,               \* where the call stands
    pid,              \* the argument
    currentPlatform,  \* what platform() answered
    outcome,          \* how the promise settled
    io,               \* the I/O steps taken, counted by kind
    execResult,       \* what the exec callback received
    lsofOutput,       \* the lines lsof printed, before grep
    fdDir,            \* what readdir of the fd directory answered
    files,            \* the entries of the fd directory
    fdIndex,          \* the entry the readlink loop stands at
    links,            \* what readlink answered, entry by entry
    inodeSet,         \* the socket inodes collected
    tcp,              \* what reading /proc/net/tcp answered
    tcp6,             \* what reading /proc/net/tcp6 answered
    tcpPorts          \* the ports found in /proc/net/tcp

vars == <<pc, pid, currentPlatform, outcome, io, execResult, lsofOutput, fdDir,
          files, fdIndex, links, inodeSet, tcp, tcp6, tcpPorts>>

NoExec == [failed |-> FALSE, message |-> "", stdout |-> <<>>, stderr |-> ""]
NoDir == [failed |-> FALSE, message |-> "", files |-> <<>>]
NoFile == [readable |-> FALSE, content |-> <<>>]
NoIo == [spawn |-> 0, readdir |-> 0, readlink |-> 0, readFile |-> 0]

\* ------------------------------------------------------------ outcomes
Pending == [kind |-> "pending", ports |-> <<>>, message |-> <<>>]
\* resolve(null) / return null
Null == [kind |-> "null", ports |-> <<>>, message |-> <<>>]
\* resolve(ports) / return ports
Ports(ports) == [kind |-> "ports", ports |-> ports, message |-> <<>>]
\* reject(new Error(m)) / throw new Error(m); m is the list of the pieces
\* the message is put together from.
Throw(m) == [kind |-> "error", ports |-> <<>>, message |-> m]

\* The list returned as it is, empty or not.
KeepEmpty(ports) == Ports(ports)

\* ports.length > 0 ? ports : null
NullIfEmpty(ports) == IF Len(ports) > 0 THEN Ports(ports) ELSE Null

\* ------------------------------------------------------------ validation
\* Number.isInteger(pid)
IsInteger(p) == p.kind = "int"
\* The check with pid < 0 for pid <= 0: zero passes.
InvalidPidZeroPasses(p) == ~IsInteger(p) \/ p.val < 0

\* !Number.isInteger(pid) || pid <= 0
InvalidPid(p) == ~IsInteger(p) \/ p.val <= 0

\* `${pid}` in a command line.
PidText(p) == numberToString([nan |-> FALSE, val |-> p.val])

\* ------------------------------------------------------------ win32
\* trimmed.split('\n').map(line => line.trim()).filter(Boolean)
Win32Lines(trimmed) ==
    LET lines == split(trimmed, "\n")
        mapped == [i \in 1..Len(lines) |-> trim(lines[i])]
        Truthy(l) == Len(l) > 0
    IN  SelectSeq(mapped, Truthy)

\* The exec callback of the win32 branch.
Win32Callback(r) ==
    IF r.failed
    THEN Throw(<<IF r.stderr # "" THEN r.stderr ELSE r.message>>)
    ELSE LET trimmed == trim(r.stdout)
         IN  IF Len(trimmed) = 0 THEN Null
             ELSE NullIfEmpty(Win32Lines(trimmed))

\* ------------------------------------------------------------ darwin
\* Whether grep -w finds word w in line: somewhere w stands with no word
\* constituent right before it and none right after it.
GrepWordMatch(line, w) ==
    \E i \in 1..(Len(line) - Len(w) + 1) :
        /\ SubSeq(line, i, i + Len(w) - 1) = w
        /\ (i = 1 \/ ~IsWordChar(line[i - 1]))
        /\ (i + Len(w) - 1 = Len(line) \/ ~IsWordChar(line[i + Len(w)]))

\* lsof -i -P -n | grep -w ${pid}: grep reads the header and the lines, prints
\* the lines it matches, and exits 1 (a failure for exec) when it matches none.
LsofGrep(lines, p, killed) ==
    LET Matches(l) == GrepWordMatch(l, PidText(p))
        out == SelectSeq(<<LsofHeader>> \o lines, Matches)
    IN  [failed |-> killed \/ Len(out) = 0,
         message |-> IF killed \/ Len(out) = 0 THEN "Command failed: lsof" ELSE "",
         stdout |-> joinLines(out, <<"\n">>),
         stderr |-> ""]

\* The piece after the first colon for the piece after the last.
SecondPiece(part) ==
    LET pieces == split(part, ":")
    IN  IF Len(pieces) >= 2 THEN pieces[2] ELSE pieces[1]

\* part.split(':').pop()
LastPiece(part) == LET pieces == split(part, ":") IN pieces[Len(pieces)]

\* The body of the loop over the parts of a line.
RECURSIVE ScanParts(_, _, _)
ScanParts(parts, i, ports) ==
    IF i > Len(parts) THEN ports
    ELSE LET part == parts[i]
             maybePort == LastPiece(part)
         IN  IF /\ includes(part, ":")
                /\ Len(maybePort) > 0
                /\ IsAllDigits(maybePort)
                /\ ~arrayIncludes(ports, maybePort)
             THEN ScanParts(parts, i + 1, Append(ports, maybePort))
             ELSE ScanParts(parts, i + 1, ports)

\* The loop over the lines of trimmed stdout.
RECURSIVE ScanLines(_, _, _)
ScanLines(lines, i, ports) ==
    IF i > Len(lines) THEN ports
    ELSE ScanLines(lines, i + 1, ScanParts(splitWs(lines[i]), 1, ports))

\* The exec callback of the darwin branch.
DarwinCallback(r) ==
    IF r.failed THEN Null
    ELSE LET trimmed == trim(r.stdout)
         IN  IF Len(trimmed) = 0 THEN Null
             ELSE NullIfEmpty(ScanLines(split(trimmed, "\n"), 1, <<>>))

\* ------------------------------------------------------------ linux
\* link.match(/^socket:\[(\d+)\]$/): the captured digits in a one-element
\* set, or the empty set when the link has another form.
SocketMatch(link) ==
    LET n == Len(link)
        k == Len(TxtSocketPrefix)
    IN  IF /\ n >= k + 2
           /\ SubSeq(link, 1, k) = TxtSocketPrefix
           /\ link[n] = "]"
           /\ IsAllDigits(SubSeq(link, k + 1, n - 1))
        THEN {SubSeq(link, k + 1, n - 1)}
        ELSE {}

\* One turn of the loop of getSocketInodesForPid: a link that cannot be read
\* is skipped.
AddSocketInode(set, r) == IF r.failed THEN set ELSE set \cup SocketMatch(r.link)

\* The message without the detail of the filesystem error.
FdDirErrorNoDetail(message) == <<"Unable to read fd directory">>

\* `Unable to read fd directory: ${err.message}`
FdDirError(message) == <<"Unable to read fd directory: ", message>>
\* `Error reading Linux network info: ${err.message}`
LinuxError(message) == <<"Error reading Linux network info: ">> \o message

\* The conversion with radix 10 for radix 16.
PortDecRadix10(portHex) == numberToString(parseInt(portHex, 10))

\* parseInt(portHex, 16).toString()
PortDec(portHex) == numberToString(parseInt(portHex, 16))

\* The loop of getPortsFromProcNet over the lines after the header.
RECURSIVE ScanRows(_, _, _, _)
ScanRows(lines, i, inodes, ports) ==
    IF i > Len(lines) THEN ports
    ELSE LET line == trim(lines[i])
             parts == splitWs(line)
         IN  IF Len(line) = 0 \/ Len(parts) < 10
             THEN ScanRows(lines, i + 1, inodes, ports)
             ELSE LET inode == parts[10]
                      localAddress == parts[2]
                      colonIndex == indexOf(localAddress, ":")
                      portHex == SubSeq(localAddress, colonIndex + 2, Len(localAddress))
                  IN  IF /\ inode \in inodes
                         /\ colonIndex # -1
                         /\ ~arrayIncludes(ports, PortDec(portHex))
                      THEN ScanRows(lines, i + 1, inodes, Append(ports, PortDec(portHex)))
                      ELSE ScanRows(lines, i + 1, inodes, ports)

\* The read error thrown on instead of caught.
getPortsFromProcNetThrowing(file, inodes) ==
    IF ~file.readable
    THEN [threw |-> TRUE, message |-> "ENOENT: no such file or directory",
          ports |-> <<>>]
    ELSE [threw |-> FALSE, message |-> "",
          ports |-> ScanRows(split(file.content, "\n"), 2, inodes, <<>>)]

\* getPortsFromProcNet: a file that cannot be read gives no port and no
\* error.  threw tells whether the function ends by throwing.
getPortsFromProcNet(file, inodes) ==
    IF ~file.readable
    THEN [threw |-> FALSE, message |-> "", ports |-> <<>>]
    ELSE [threw |-> FALSE, message |-> "",
          ports |-> ScanRows(split(file.content, "\n"), 2, inodes, <<>>)]

\* Array.from(new Set(arr)): the first occurrence of each element, in order.
RECURSIVE ArrayFromSet(_)
ArrayFromSet(arr) ==
    IF Len(arr) = 0 THEN <<>>
    ELSE LET init == ArrayFromSet(SubSeq(arr, 1, Len(arr) - 1))
             last == arr[Len(arr)]
         IN  IF arrayIncludes(init, last) THEN init ELSE Append(init, last)

\* ------------------------------------------------------------ actions
Init ==
    /\ pc = "idle"
    /\ pid = [kind |-> "int", val |-> 0]
    /\ currentPlatform = ""
    /\ outcome = Pending
    /\ io = NoIo
    /\ execResult = NoExec
    /\ lsofOutput = <<>>
    /\ fdDir = NoDir
    /\ files = <<>>
    /\ fdIndex = 0
    /\ links = <<>>
    /\ inodeSet = {}
    /\ tcp = NoFile
    /\ tcp6 = NoFile
    /\ tcpPorts = <<>>

\* findPortByPid up to its first await: the argument check, the dispatch on
\* the platform, and the start of the platform's first I/O step.
Call(p, plat) ==
    /\ pc = "idle"
    /\ pid' = p
    /\ currentPlatform' = plat
    /\ IF InvalidPid(p)
       THEN /\ outcome' = Throw(<<"Invalid PID">>)
            /\ pc' = "done"
            /\ io' = io
       ELSE CASE plat = "win32" ->
                   /\ io' = [io EXCEPT !.spawn = @ + 1]
                   /\ pc' = "win32_exec"
                   /\ outcome' = outcome
              [] plat = "darwin" ->
                   /\ io' = [io EXCEPT !.spawn = @ + 1]
                   /\ pc' = "darwin_exec"
                   /\ outcome' = outcome
              [] plat = "linux" ->
                   /\ io' = [io EXCEPT !.readdir = @ + 1]
                   /\ pc' = "linux_readdir"
                   /\ outcome' = outcome
              [] OTHER ->
                   /\ outcome' = Throw(<<"Unsupported platform: ", plat>>)
                   /\ pc' = "done"
                   /\ io' = io
    /\ UNCHANGED <<execResult, lsofOutput, fdDir, files, fdIndex, links,
                   inodeSet, tcp, tcp6, tcpPorts>>

\* The exec callback of the win32 branch runs with what PowerShell gave.
Win32Exec(r) ==
    /\ pc = "win32_exec"
    /\ execResult' = r
    /\ outcome' = Win32Callback(r)
    /\ pc' = "done"
    /\ UNCHANGED <<pid, currentPlatform, io, lsofOutput, fdDir, files, fdIndex,
                   links, inodeSet, tcp, tcp6, tcpPorts>>

\* The exec callback of the darwin branch runs with what the pipeline gave.
DarwinExec(lines, killed) ==
    /\ pc = "darwin_exec"
    /\ lsofOutput' = lines
    /\ execResult' = LsofGrep(lines, pid, killed)
    /\ outcome' = DarwinCallback(LsofGrep(lines, pid, killed))
    /\ pc' = "done"
    /\ UNCHANGED <<pid, currentPlatform, io, fdDir, files, fdIndex, links,
                   inodeSet, tcp, tcp6, tcpPorts>>

\* What follows getSocketInodesForPid in the linux branch: null at once when
\* no socket inode was found, else the read of /proc/net/tcp starts.
AfterInodes(set) ==
    IF Cardinality(set) = 0
    THEN /\ outcome' = Null
         /\ pc' = "done"
         /\ io' = io
    ELSE /\ outcome' = outcome
         /\ pc' = "linux_tcp"
         /\ io' = [io EXCEPT !.readFile = @ + 1]

\* fs.readdir of the fd directory answers.
LinuxReaddir(r) ==
    /\ pc = "linux_readdir"
    /\ fdDir' = r
    /\ IF r.failed
       THEN /\ outcome' = Throw(LinuxError(FdDirError(r.message)))
            /\ pc' = "done"
            /\ io' = io
            /\ UNCHANGED <<files, fdIndex>>
       ELSE /\ files' = r.files
            /\ IF Len(r.files) = 0
               THEN AfterInodes({}) /\ fdIndex' = fdIndex
               ELSE /\ pc' = "linux_readlink"
                    /\ fdIndex' = 1
                    /\ io' = [io EXCEPT !.readlink = @ + 1]
                    /\ outcome' = outcome
    /\ UNCHANGED <<pid, currentPlatform, execResult, lsofOutput, links, inodeSet,
                   tcp, tcp6, tcpPorts>>

\* fs.readlink of the descriptor the loop stands at answers.
LinuxReadlink(r) ==
    /\ pc = "linux_readlink"
    /\ links' = Append(links, r)
    /\ inodeSet' = AddSocketInode(inodeSet, r)
    /\ IF fdIndex = Len(files)
       THEN AfterInodes(AddSocketInode(inodeSet, r)) /\ fdIndex' = fdIndex
       ELSE /\ fdIndex' = fdIndex + 1
            /\ pc' = pc
            /\ io' = [io EXCEPT !.readlink = @ + 1]
            /\ outcome' = outcome
    /\ UNCHANGED <<pid, currentPlatform, execResult, lsofOutput, fdDir, files,
                   tcp, tcp6, tcpPorts>>

\* fs.readFile of /proc/net/tcp answers; the read of /proc/net/tcp6 starts.
LinuxReadTcp(f) ==
    /\ pc = "linux_tcp"
    /\ tcp' = f
    /\ LET got == getPortsFromProcNet(f, inodeSet)
       IN  IF got.threw
           THEN /\ outcome' = Throw(LinuxError(<<got.message>>))
                /\ pc' = "done"
                /\ io' = io
                /\ tcpPorts' = tcpPorts
           ELSE /\ tcpPorts' = got.ports
                /\ pc' = "linux_tcp6"
                /\ io' = [io EXCEPT !.readFile = @ + 1]
                /\ outcome' = outcome
    /\ UNCHANGED <<pid, currentPlatform, execResult, lsofOutput, fdDir, files,
                   fdIndex, links, inodeSet, tcp6>>

\* fs.readFile of /proc/net/tcp6 answers; the two lists are merged.
LinuxReadTcp6(f) ==
    /\ pc = "linux_tcp6"
    /\ tcp6' = f
    /\ LET got == getPortsFromProcNet(f, inodeSet)
       IN  outcome' = IF got.threw
                      THEN Throw(LinuxError(<<got.message>>))
                      ELSE NullIfEmpty(ArrayFromSet(tcpPorts \o got.ports))
    /\ pc' = "done"
    /\ UNCHANGED <<pid, currentPlatform, io, execResult, lsofOutput, fdDir, files,
                   fdIndex, links, inodeSet, tcp, tcpPorts>>

Next ==
    \/ \E p \in Pids, plat \in Platforms : Call(p, plat)
    \/ pc = "win32_exec" /\ \E r \in WinExecResults : Win32Exec(r)
    \/ pc = "darwin_exec" /\ \E lines \in LsofOutputs, killed \in BOOLEAN :
          DarwinExec(lines, killed)
    \/ pc = "linux_readdir" /\ \E r \in ReaddirResults : LinuxReaddir(r)
    \/ pc = "linux_readlink" /\ \E r \in ReadlinkResults : LinuxReadlink(r)
    \/ pc = "linux_tcp" /\ \E f \in TcpFiles : LinuxReadTcp(f)
    \/ pc = "linux_tcp6" /\ \E f \in Tcp6Files : LinuxReadTcp6(f)

Spec == Init /\ [][Next]_vars

\* ------------------------------------------------------------ properties
\* The vocabulary of the properties, stated on what the call was given (the
\* argument, the answers of the operating system) and on how it ended.

\* A strictly positive integer.
ValidPid == pid.kind = "int" /\ pid.val > 0

Finished == pc = "done"

\* No element occurs twice.
NoDuplicates(arr) ==
    \A i, j \in 1..Len(arr) : arr[i] = arr[j] => i = j

\* The whitespace-delimited tokens of a line: the maximal stretches without
\* white space.
TokensOf(line) ==
    LET n == Len(line)
        IsToken(a, b) ==
            /\ a <= b
            /\ a = 1 \/ IsWhite(line[a - 1])
            /\ b = n \/ IsWhite(line[b + 1])
            /\ \A k \in a..b : ~IsWhite(line[k])
    IN  {SubSeq(line, ab[1], ab[2]) :
            ab \in {x \in (1..n) \X (1..n) : IsToken(x[1], x[2])}}

\* The text after the last colon of a token that has a colon.
AfterLastColon(t) ==
    LET k == CHOOSE i \in 1..Len(t) :
                 t[i] = ":" /\ \A j \in (i + 1)..Len(t) : t[j] # ":"
    IN  SubSeq(t, k + 1, Len(t))

\* The text after the first colon of an address that has a colon.
AfterFirstColon(a) ==
    LET k == CHOOSE i \in 1..Len(a) :
                 a[i] = ":" /\ \A j \in 1..(i - 1) : a[j] # ":"
    IN  SubSeq(a, k + 1, Len(a))

\* The identifiers of the descriptors whose link was read and has the form
\* socket:[digits].
OwnedSocketIds ==
    LET k == Len(TxtSocketPrefix)
        Id(l) == SubSeq(l, k + 1, Len(l) - 1)
        IsSocket(l) == IsAllDigits(Id(l)) /\ l = TxtSocketPrefix \o Id(l) \o <<"]">>
    IN  {Id(links[i].link) :
            i \in {x \in 1..Len(links) :
                     ~links[x].failed /\ IsSocket(links[x].link)}}

\* The records of a table that was read: the fields of each line after the
\* header line.
RecordsOf(file) ==
    IF ~file.readable THEN {}
    ELSE LET lines == split(file.content, "\n")
         IN  {splitWs(trim(lines[i])) : i \in 2..Len(lines)}

\* Field 1 of the records with at least 10 fields whose field 9 is an
\* identifier of ids.
JoinedAddresses(file, ids) ==
    {f[2] : f \in {g \in RecordsOf(file) : Len(g) >= 10 /\ g[10] \in ids}}

\* The value of a text of hexadecimal digits.
RECURSIVE Pow16(_)
Pow16(k) == IF k = 0 THEN 1 ELSE 16 * Pow16(k - 1)
RECURSIVE HexSum(_, _)
HexSum(h, i) ==
    IF i > Len(h) THEN 0
    ELSE DigitValue(h[i]) * Pow16(Len(h) - i) + HexSum(h, i + 1)
IsHexText(h) == Len(h) > 0 /\ \A i \in 1..Len(h) : IsRadixDigit(h[i], 16)

\* Every address of A that has a colon has a hexadecimal port after it.
HexPorts(A) == \A a \in A : includes(a, ":") => IsHexText(AfterFirstColon(a))

\* Field 1 of the joined records of both tables.
JoinedLinuxAddresses ==
    LET ids == OwnedSocketIds
    IN  JoinedAddresses(tcp, ids) \cup JoinedAddresses(tcp6, ids)
\* The ports the addresses of A hold, in decimal.
PortsIn(A) ==
    {decDigits(HexSum(AfterFirstColon(a), 1)) : a \in {b \in A : includes(b, ":")}}

\* What one table alone yields for the owned sockets.
YieldOf(file) ==
    {PortDec(AfterFirstColon(a)) :
        a \in {b \in JoinedAddresses(file, OwnedSocketIds) : includes(b, ":")}}

\* C1: a pid that is not a strictly positive integer makes the call fail
\* with the invalid-argument error on every platform, before any I/O step:
\* nothing is spawned, no directory listed, no link resolved, no file read.
C1_InvalidPidFailsBeforeIo ==
    (pc # "idle" /\ ~ValidPid)
        => /\ Finished
           /\ outcome = Throw(<<"Invalid PID">>)
           /\ io = NoIo

C1_Witness ==
    /\ Finished
    /\ pid.kind = "nan"
    /\ currentPlatform = "linux"
    /\ outcome.kind = "error"

\* C2: on the Linux path the result, as a set, is exactly the set of the
\* decimal renderings of the hexadecimal port in field 1 of every record
\* after the header with at least 10 fields whose field 9 is the identifier
\* of a descriptor of the process that resolved to the socket form;
\* descriptors that cannot be resolved are skipped.  Field 1 of the joined
\* records is in the HEXIP:HEXPORT form of the table (a joined record
\* with no colon in field 1 holds no port).
C2_LinuxJoin ==
    (Finished /\ currentPlatform = "linux" /\ outcome.kind # "error")
        => LET A == JoinedLinuxAddresses
           IN  HexPorts(A) => Range(outcome.ports) = PortsIn(A)

C2_Witness ==
    /\ Finished
    /\ currentPlatform = "linux"
    /\ \E i \in 1..Len(links) : links[i].failed
    /\ OwnedSocketIds = {Inode7}
    /\ tcp.readable
    /\ tcp.content =
         joinLines(<<TcpHeader, Row(Addr8080, Inode7), Row(Addr80, Inode9)>>, <<"\n">>)
    /\ tcp6.readable
    /\ outcome.ports = <<Txt8080>>

\* C3: on every platform path a call that finds zero matching sockets ends
\* with null and not with an error, and a call never ends with an empty
\* list of ports.
NoMatchingSockets ==
    \/ /\ currentPlatform = "win32"
       /\ ~execResult.failed
       /\ \A i \in 1..Len(execResult.stdout) : IsWhite(execResult.stdout[i])
    \/ /\ currentPlatform = "darwin"
       /\ Len(execResult.stdout) = 0
    \/ /\ currentPlatform = "linux"
       /\ ~fdDir.failed
       /\ JoinedLinuxAddresses = {}

C3_EmptyIsNull ==
    /\ outcome.kind = "ports" => Len(outcome.ports) > 0
    /\ (Finished /\ ValidPid /\ NoMatchingSockets) => outcome.kind = "null"

C3_Witness ==
    /\ Finished
    /\ currentPlatform = "linux"
    /\ OwnedSocketIds # {}
    /\ tcp.readable
    /\ Len(tcp.content) > Len(TcpHeader) + 1
    /\ JoinedLinuxAddresses = {}
    /\ outcome.kind = "null"

\* C4: on all three platform paths the returned list holds no port twice.
C4_NoDuplicatePorts ==
    outcome.kind = "ports" => NoDuplicates(outcome.ports)

\* C5: on the Linux path, when the fd directory cannot be listed the call
\* ends with an error that carries the filesystem's message, never with
\* null or a list, and no link is resolved and no table is read.
C5_ReaddirFailurePropagates ==
    (currentPlatform = "linux" /\ fdDir.failed)
        => /\ Finished
           /\ outcome.kind = "error"
           /\ fdDir.message \in Range(outcome.message)
           /\ io.readlink = 0
           /\ io.readFile = 0

C5_Witness ==
    /\ Finished
    /\ currentPlatform = "linux"
    /\ fdDir.failed
    /\ fdDir.message = "EACCES: permission denied"
    /\ outcome.kind = "error"

\* C6: on the Linux path a table that cannot be read contributes nothing
\* and never makes the call fail: the result is what the other table alone
\* yields.
C6_MissingTableIsEmpty ==
    (Finished /\ currentPlatform = "linux" /\ io.readFile > 0)
        => /\ outcome.kind # "error"
           /\ ~tcp6.readable => Range(outcome.ports) = YieldOf(tcp)
           /\ ~tcp.readable => Range(outcome.ports) = YieldOf(tcp6)

C6_Witness ==
    /\ Finished
    /\ currentPlatform = "linux"
    /\ tcp.readable
    /\ ~tcp6.readable
    /\ io.readFile > 0
    /\ outcome.ports = <<Txt8080, Txt22>>

\* C7: on the Windows path one process is spawned; the call fails, with the
\* diagnostic text, when the invocation failed, and fails when an output
\* line is not a port number; it returns a list only when the invocation
\* succeeded and every output line is a port number.
Win32OutputLines ==
    {trim(l) : l \in Range(split(execResult.stdout, "\n"))} \ {<<>>}
Win32Malformed == \E l \in Win32OutputLines : ~IsAllDigits(l)

C7_Win32FailsOnBadOutput ==
    (Finished /\ currentPlatform = "win32" /\ ValidPid)
        => /\ io.spawn = 1
           /\ execResult.failed =>
                /\ outcome.kind = "error"
                /\ \/ execResult.stderr \in Range(outcome.message)
                   \/ execResult.message \in Range(outcome.message)
           /\ Win32Malformed => outcome.kind = "error"
           /\ outcome.kind = "ports" => ~execResult.failed /\ ~Win32Malformed

\* C8: on the Darwin path every port of the result is extracted from a line
\* of lsof whose owning pid (its second column) is the requested pid.
OwnerPid(line) == splitWs(line)[2]
PortsOfLine(line) == Range(ScanParts(splitWs(line), 1, <<>>))

C8_DarwinOnlyOwnLines ==
    (Finished /\ currentPlatform = "darwin" /\ outcome.kind = "ports")
        => \A p \in Range(outcome.ports) :
              \E i \in 1..Len(lsofOutput) :
                  /\ OwnerPid(lsofOutput[i]) = PidText(pid)
                  /\ p \in PortsOfLine(lsofOutput[i])

\* C9: on the Darwin path the result is exactly the collection, without
\* duplicates, of the texts after the last colon of the tokens of the
\* matched lines that have a colon, kept when not empty and all digits;
\* null stands for the empty collection.
MatchedLines == Range(split(execResult.stdout, "\n"))
DarwinPortTexts ==
    {AfterLastColon(t) :
        t \in {u \in UNION {TokensOf(l) : l \in MatchedLines} :
                 /\ includes(u, ":")
                 /\ IsAllDigits(AfterLastColon(u))}}

C9_DarwinTokenScan ==
    (Finished /\ currentPlatform = "darwin" /\ ValidPid /\ ~execResult.failed)
        => /\ Range(outcome.ports) = DarwinPortTexts
           /\ NoDuplicates(outcome.ports)
           /\ outcome.kind = "null" <=> DarwinPortTexts = {}
           /\ outcome.kind # "error"

C9_Witness ==
    /\ Finished
    /\ currentPlatform = "darwin"
    /\ lsofOutput = <<Lsof80V6, Lsof80Udp>>
    /\ ~execResult.failed
    /\ outcome.ports = <<Txt3000>>

\* C10: every element of every list returned, on every platform path, is
\* the decimal text of an integer from 0 to 65535.
IsPortText(p) == IsAllDigits(p) /\ digitsValue(p, 1, Len(p), 10) <= 65535

C10_ElementsArePorts ==
    outcome.kind = "ports" => \A p \in Range(outcome.ports) : IsPortText(p)

====
